---- MODULE Spec2Model ----
(***************************************************************************)
(* recipe-converter: the Meal-Master parser (recipe_converter/mealmaster)  *)
(* and the field mapping of recipe_converter/convert, as a state machine.  *)
(*                                                                         *)
(* Text is modelled character by character: a Python str is a sequence of  *)
(* one-character strings ("" is << >>), a text stream is a sequence of     *)
(* lines, and a line is a str that holds at most one "\n", as its last     *)
(* character (what iterating a text stream hands out).                     *)
(***************************************************************************)
EXTENDS Integers, Sequences, FiniteSets, TLC

VARIABLES
    f,               \* parse: the input stream, a sequence of lines
    pos,             \* parse: index of the next line `for line in f` reads
    recipe_started,  \* parse: inside-record flag
    recipe_buffer,   \* parse: lines buffered for the current record
    yielded,         \* parse: the Recipes handed to the consumer so far
    pc,              \* parse: "run", "yield" (suspended at the yield of line 234),
                     \*        "done" (StopIteration) or "raised"
    err,             \* parse: the ValueError that ended the generator
    groups,          \* ingredients round trip: the parsed groups
    text,            \* ingredients round trip: the groups serialized again
    regroups,        \* ingredients round trip: the groups parsed from text
    command,         \* the calling command: "idle", "running", "returned" or "failed"
    mela_recipes,    \* mealmaster_to_melarecipes: the converted recipes collected so far
    archive,         \* the calls of melarecipes.write so far, each the list it was given
    recipes,         \* add_images: the records of the input archive
    cursor,          \* add_images: index of the record `for recipe in recipes` handles next
    log              \* add_images: the warnings and errors logged, as <<level, record index>>

\* The variables of the commands that call the parser or work on an archive.
callers == <<command, mela_recipes, archive, recipes, cursor, log>>

vars == <<f, pos, recipe_started, recipe_buffer, yielded, pc, err,
          groups, text, regroups, callers>>

-----------------------------------------------------------------------------
(* Python str and re primitives the parser uses.                           *)

\* The characters of the model are those of ISO 8859-1 (U+0000 to U+00FF), the
\* ones a string here can hold, and the three characters beyond them that
\* str.title() and str.lower() make of these: U+0178 (capital Y with diaeresis),
\* U+039C (Greek capital mu) and U+03BC (Greek small mu), each written as the
\* string of its code point.
\*
\* The characters str.strip() removes and the regex class \s matches (those with
\* str.isspace()): space, \t, \n, \f, \r, and U+000B, U+001C, U+001D, U+001E,
\* U+001F, U+0085, U+00A0, which have no escape and stand here as themselves.
Whitespace == {" ", "\t", "\n", "\f", "\r", "", "", "", "", "", "", " "}

\* The lower-case letters with an upper-case partner among the characters of the
\* model, and their partners in the same order.
LowerCase == <<"a", "b", "c", "d", "e", "f", "g", "h", "i", "j", "k", "l", "m",
               "n", "o", "p", "q", "r", "s", "t", "u", "v", "w", "x", "y", "z",
               "à", "á", "â", "ã", "ä", "å", "æ", "ç", "è", "é", "ê", "ë", "ì",
               "í", "î", "ï", "ð", "ñ", "ò", "ó", "ô", "õ", "ö", "ø", "ù", "ú",
               "û", "ü", "ý", "þ", "ÿ", "U+03BC">>
UpperCase == <<"A", "B", "C", "D", "E", "F", "G", "H", "I", "J", "K", "L", "M",
               "N", "O", "P", "Q", "R", "S", "T", "U", "V", "W", "X", "Y", "Z",
               "À", "Á", "Â", "Ã", "Ä", "Å", "Æ", "Ç", "È", "É", "Ê", "Ë", "Ì",
               "Í", "Î", "Ï", "Ð", "Ñ", "Ò", "Ó", "Ô", "Õ", "Ö", "Ø", "Ù", "Ú",
               "Û", "Ü", "Ý", "Þ", "U+0178", "U+039C">>

\* The lower-case characters that are no one's c.lower(): the ordinal
\* indicators, the sharp s and the micro sign.
UnpairedLower == {"ª", "º", "ß", "µ"}

IsLower(c) == (\E i \in DOMAIN LowerCase : LowerCase[i] = c) \/ c \in UnpairedLower
IsUpper(c) == \E i \in DOMAIN UpperCase : UpperCase[i] = c
Lower(c) == IF IsUpper(c) THEN LowerCase[CHOOSE i \in DOMAIN UpperCase : UpperCase[i] = c] ELSE c

\* c.title() of one character, a str: the partner of a paired lower-case letter,
\* two characters for the sharp s, the Greek capital mu for the micro sign, and
\* c itself for every other character.
TitleCase(c) ==
    CASE c = "ß" -> <<"S", "s">>
      [] c = "µ" -> <<"U+039C">>
      [] \E i \in DOMAIN LowerCase : LowerCase[i] = c ->
            <<UpperCase[CHOOSE i \in DOMAIN LowerCase : LowerCase[i] = c]>>
      [] OTHER -> <<c>>

Max(S) == CHOOSE x \in S : \A y \in S : y <= x
Min(S) == CHOOSE x \in S : \A y \in S : x <= y

\* s[n:] of Python, n counted from 0 (the characters after the first n).
Drop(s, n) == IF n >= Len(s) THEN << >> ELSE SubSeq(s, n + 1, Len(s))

\* Number of whitespace characters s starts with.
LeadingSpace(s) ==
    IF \A i \in 1..Len(s) : s[i] \in Whitespace THEN Len(s)
    ELSE Min({i \in 1..Len(s) : s[i] \notin Whitespace}) - 1

\* str.strip()
Strip(s) ==
    IF \A i \in 1..Len(s) : s[i] \in Whitespace THEN << >>
    ELSE SubSeq(s, Min({i \in 1..Len(s) : s[i] \notin Whitespace}),
                   Max({i \in 1..Len(s) : s[i] \notin Whitespace}))

\* `not line.strip()`
IsBlank(line) == Strip(line) = << >>

\* str.startswith(prefix); with ignorecase, the prefix test of a re.IGNORECASE pattern.
StartsWith(s, prefix, ignorecase) ==
    /\ Len(s) >= Len(prefix)
    /\ \A i \in 1..Len(prefix) :
          IF ignorecase THEN Lower(s[i]) = Lower(prefix[i]) ELSE s[i] = prefix[i]

\* The longest run of `.` (any character but a newline) at the start of s.
DotStar(s) ==
    IF \A i \in 1..Len(s) : s[i] # "\n" THEN s
    ELSE SubSeq(s, 1, Min({i \in 1..Len(s) : s[i] = "\n"}) - 1)

\* A match result of re.match: matched, and group(1) of the match.
NoMatch == [matched |-> FALSE, group |-> << >>]
Match(g) == [matched |-> TRUE, group |-> g]

\* `\s*(.+)` (least = 0) or `\s+(.+)` (least = 1) matched at the start of s: the
\* whitespace run is greedy and gives characters back until `.+` has one to take.
SpaceThenGroup(s, least) ==
    LET ks == {k \in least..LeadingSpace(s) : k < Len(s) /\ s[k + 1] # "\n"}
    IN  IF ks = {} THEN NoMatch ELSE Match(DotStar(Drop(s, Max(ks))))

\* `\s(.+)` matched at the start of s: exactly one whitespace character.
OneSpaceThenGroup(s) ==
    IF Len(s) >= 2 /\ s[1] \in Whitespace /\ s[2] # "\n"
    THEN Match(DotStar(Drop(s, 1))) ELSE NoMatch

\* `^\s*LABEL\s*(.+)` for a label that is one of the literal alternatives `labels`.
LabelMatch(line, labels, ignorecase) ==
    LET s == Drop(line, LeadingSpace(line))
        hit == {l \in labels : StartsWith(s, l, ignorecase)}
    IN  IF hit = {} THEN NoMatch
        ELSE SpaceThenGroup(Drop(s, Len(CHOOSE l \in hit : TRUE)), 0)

\* `^::TAG\s+:\s+:` matched at the start of line (re.IGNORECASE): what follows the
\* second colon, in group, when it matches.
CommentTagMatch(line, tag) ==
    IF ~StartsWith(line, <<":", ":">> \o tag, TRUE) THEN NoMatch
    ELSE LET r1 == Drop(line, Len(tag) + 2)
             w1 == LeadingSpace(r1)
             r2 == Drop(r1, w1 + 1)
             w2 == LeadingSpace(r2)
         IN  IF /\ w1 >= 1 /\ w1 < Len(r1) /\ r1[w1 + 1] = ":"
                /\ w2 >= 1 /\ w2 < Len(r2) /\ r2[w2 + 1] = ":"
             THEN Match(Drop(r2, w2 + 1)) ELSE NoMatch

\* str.title(): a cased character is upper-cased after an uncased one, lower-cased
\* after a cased one.
RECURSIVE TitleFrom(_, _)
TitleFrom(s, previous_is_cased) ==
    IF s = << >> THEN << >>
    ELSE LET c == Head(s)
             cased == IsLower(c) \/ IsUpper(c)
         IN  (IF ~cased THEN <<c>> ELSE IF previous_is_cased THEN <<Lower(c)>> ELSE TitleCase(c))
                 \o TitleFrom(Tail(s), cased)
Title(s) == TitleFrom(s, FALSE)

\* str.split(sep) for a one-character separator: the pieces between separators,
\* empty pieces kept.
RECURSIVE SplitOn(_, _)
SplitOn(s, sep) ==
    IF \A i \in 1..Len(s) : s[i] # sep THEN <<s>>
    ELSE LET i == Min({j \in 1..Len(s) : s[j] = sep})
         IN  <<SubSeq(s, 1, i - 1)>> \o SplitOn(Drop(s, i), sep)

\* str.split(): the maximal runs of non-whitespace characters.
RECURSIVE SplitSpace(_)
SplitSpace(s) ==
    LET t == Drop(s, LeadingSpace(s))
    IN  IF t = << >> THEN << >>
        ELSE LET n == IF \A i \in 1..Len(t) : t[i] \notin Whitespace THEN Len(t)
                      ELSE Min({i \in 1..Len(t) : t[i] \in Whitespace}) - 1
             IN  <<SubSeq(t, 1, n)>> \o SplitSpace(Drop(t, n))

\* str.replace(old, "") for a one-character old.
RemoveChar(s, c) == SelectSeq(s, LAMBDA x : x # c)

\* str.replace("\n\n", "\n"): one pass, left to right, matches do not overlap.
RECURSIVE ReplaceDoubleNewline(_)
ReplaceDoubleNewline(s) ==
    IF Len(s) < 2 THEN s
    ELSE IF s[1] = "\n" /\ s[2] = "\n" THEN <<"\n">> \o ReplaceDoubleNewline(Drop(s, 2))
    ELSE <<s[1]>> \o ReplaceDoubleNewline(Tail(s))

\* Patterns.MULTI_SPACE.sub(" ", s): every run of whitespace becomes one space.
RECURSIVE MULTI_SPACE_sub(_)
MULTI_SPACE_sub(s) ==
    IF s = << >> THEN << >>
    ELSE IF Head(s) \in Whitespace
         THEN <<" ">> \o MULTI_SPACE_sub(Drop(s, LeadingSpace(s)))
         ELSE <<Head(s)>> \o MULTI_SPACE_sub(Tail(s))

\* Iterating a text stream over s: the lines of s, each with its newline kept.
RECURSIVE Lines(_)
Lines(s) ==
    IF s = << >> THEN << >>
    ELSE IF \A i \in 1..Len(s) : s[i] # "\n" THEN <<s>>
    ELSE LET i == Min({j \in 1..Len(s) : s[j] = "\n"})
         IN  <<SubSeq(s, 1, i)>> \o Lines(Drop(s, i))

\* x in list
In(x, list) == \E i \in 1..Len(list) : list[i] = x

-----------------------------------------------------------------------------
(* class Patterns: each pattern as the result of Patterns.X.match(line).   *)

MMMMM == <<"M", "M", "M", "M", "M">>

\* MMMMM(-)+.*\n
START_RECIPE(line) ==
    /\ StartsWith(line, MMMMM \o <<"-">>, FALSE)
    /\ \E i \in 7..Len(line) : line[i] = "\n"

\* MMMMM\n
END_RECIPE(line) == StartsWith(line, MMMMM \o <<"\n">>, FALSE)

\* MMMMM(-)+.*-+\n ; group(1) is the last repetition of (-), always one dash.
SUBHEADING(line) ==
    IF /\ StartsWith(line, MMMMM \o <<"-">>, FALSE)
       /\ \E i \in 8..Len(line) : line[i] = "\n" /\ line[i - 1] = "-"
    THEN Match(<<"-">>) ELSE NoMatch

TITLE_LINE(line) == LabelMatch(line, {<<"T", "i", "t", "l", "e", ":">>}, FALSE)
CATEGORIES_LINE(line) ==
    LabelMatch(line, {<<"C", "a", "t", "e", "g", "o", "r", "i", "e", "s", ":">>}, FALSE)
SERVINGS_LINE(line) ==
    LabelMatch(line, {<<"S", "e", "r", "v", "i", "n", "g", "s", ":">>}, FALSE)
PREP_TIME_LINE(line) ==
    LabelMatch(line, {<<"P", "r", "e", "p", " ", "T", "i", "m", "e", ":">>,
                      <<"P", "r", "e", "p", "a", "r", "a", "t", "i", "o", "n", " ",
                        "T", "i", "m", "e", ":">>}, TRUE)
COOK_TIME_LINE(line) ==
    LabelMatch(line, {<<"C", "o", "o", "k", " ", "T", "i", "m", "e", ":">>,
                      <<"C", "o", "o", "k", "i", "n", "g", " ", "T", "i", "m", "e", ":">>}, TRUE)
TOTAL_TIME_LINE(line) ==
    LabelMatch(line, {<<"T", "o", "t", "a", "l", " ", "T", "i", "m", "e", ":">>}, TRUE)
DESCRIPTION(line) ==
    LabelMatch(line, {<<"D", "e", "s", "c", "r", "i", "p", "t", "i", "o", ":">>,
                      <<"D", "e", "s", "c", "r", "i", "p", "t", "i", "o", "n", ":">>}, TRUE)
NOTES_LINE(line) ==
    LabelMatch(line, {<<"N", "o", "t", "e", ":">>, <<"N", "o", "t", "e", "s", ":">>}, TRUE)

\* ^::Quelle\s+:\s+:\s+(.+)
SOURCE_COMMENT_LINE(line) ==
    LET m == CommentTagMatch(line, <<"Q", "u", "e", "l", "l", "e">>)
    IN  IF m.matched THEN SpaceThenGroup(m.group, 1) ELSE NoMatch
\* ^::Stichworte\s+:\s+:\s(.+)
CATEGORIES_COMMENT_LINE(line) ==
    LET m == CommentTagMatch(line, <<"S", "t", "i", "c", "h", "w", "o", "r", "t", "e">>)
    IN  IF m.matched THEN OneSpaceThenGroup(m.group) ELSE NoMatch
\* ^::Energie\s+:\s+:\s(.+)
NUTRITIONAL_LINE(line) ==
    LET m == CommentTagMatch(line, <<"E", "n", "e", "r", "g", "i", "e">>)
    IN  IF m.matched THEN OneSpaceThenGroup(m.group) ELSE NoMatch
\* ^::(.+)
COMMENT_LINE(line) ==
    StartsWith(line, <<":", ":">>, FALSE) /\ Len(line) >= 3 /\ line[3] # "\n"

-----------------------------------------------------------------------------
(* The data classes.                                                       *)

\* IngredientsGroup(title=title), ingredients defaulting to the empty list
IngredientsGroup(title) == [title |-> title, ingredients |-> << >>]

\* Recipe(): every field at its default
Recipe == [title |-> << >>, description |-> << >>, servings |-> << >>,
           cook_time |-> << >>, prep_time |-> << >>, total_time |-> << >>,
           categories |-> << >>, ingredients_groups |-> << >>,
           instructions |-> << >>, nutrition |-> << >>, source |-> << >>,
           notes |-> << >>]

-----------------------------------------------------------------------------
(* _parse_header                                                           *)

\* [category.strip() for category in categories_match.group(1).split(",")]
HeaderCategories(value) ==
    LET parts == SplitOn(value, ",") IN [i \in 1..Len(parts) |-> Strip(parts[i])]

\* One pass of the loop body for a line that is not blank: the first pattern
\* that matches sets its field; set is whether any pattern matched.
HeaderLine(recipe, line) ==
    IF TITLE_LINE(line).matched
    THEN [recipe |-> [recipe EXCEPT !.title = Title(TITLE_LINE(line).group)], set |-> TRUE]
    ELSE IF CATEGORIES_LINE(line).matched
    THEN [recipe |-> [recipe EXCEPT !.categories = HeaderCategories(CATEGORIES_LINE(line).group)],
          set |-> TRUE]
    ELSE IF SERVINGS_LINE(line).matched
    THEN [recipe |-> [recipe EXCEPT !.servings = SERVINGS_LINE(line).group], set |-> TRUE]
    ELSE IF PREP_TIME_LINE(line).matched
    THEN [recipe |-> [recipe EXCEPT !.prep_time = PREP_TIME_LINE(line).group], set |-> TRUE]
    ELSE IF COOK_TIME_LINE(line).matched
    THEN [recipe |-> [recipe EXCEPT !.cook_time = COOK_TIME_LINE(line).group], set |-> TRUE]
    ELSE IF TOTAL_TIME_LINE(line).matched
    THEN [recipe |-> [recipe EXCEPT !.total_time = TOTAL_TIME_LINE(line).group], set |-> TRUE]
    ELSE IF DESCRIPTION(line).matched
    THEN [recipe |-> [recipe EXCEPT !.description = DESCRIPTION(line).group], set |-> TRUE]
    ELSE IF NOTES_LINE(line).matched
    THEN [recipe |-> [recipe EXCEPT !.notes =
                        (IF recipe.notes # << >> THEN recipe.notes \o <<"\n">> ELSE << >>)
                            \o NOTES_LINE(line).group],
          set |-> TRUE]
    ELSE [recipe |-> recipe, set |-> FALSE]

\* HeaderLoop without the variable started: the first blank line ends the
\* header wherever it stands.
RECURSIVE HeaderLoopBlankEnds(_, _, _)
HeaderLoopBlankEnds(recipe, lines, started) ==
    IF lines = << >> THEN [recipe |-> recipe, rest |-> << >>]
    ELSE IF IsBlank(Head(lines)) THEN [recipe |-> recipe, rest |-> Tail(lines)]
    ELSE HeaderLoopBlankEnds(HeaderLine(recipe, Head(lines)).recipe, Tail(lines), started)

\* The loop `for line in f` of _parse_header: the recipe it leaves and the lines
\* of the buffer it has not consumed.
RECURSIVE HeaderLoop(_, _, _)
HeaderLoop(recipe, lines, started) ==
    IF lines = << >> THEN [recipe |-> recipe, rest |-> << >>]
    ELSE IF IsBlank(Head(lines))
         THEN IF started THEN [recipe |-> recipe, rest |-> Tail(lines)]
              ELSE HeaderLoop(recipe, Tail(lines), started)
         ELSE LET r == HeaderLine(recipe, Head(lines))
              IN  HeaderLoop(r.recipe, Tail(lines), started \/ r.set)

\* _parse_header by a reader that takes the first line no pattern matches,
\* once a field is set, for the end of the header and leaves it to the next
\* reader.
RECURSIVE _parse_header_until_unknown(_, _)
_parse_header_until_unknown(recipe, lines) ==
    IF lines = << >> THEN [recipe |-> recipe, rest |-> << >>]
    ELSE IF IsBlank(Head(lines))
         THEN IF recipe # Recipe THEN [recipe |-> recipe, rest |-> Tail(lines)]
              ELSE _parse_header_until_unknown(recipe, Tail(lines))
         ELSE IF HeaderLine(recipe, Head(lines)).set
              THEN _parse_header_until_unknown(HeaderLine(recipe, Head(lines)).recipe, Tail(lines))
              ELSE IF recipe # Recipe THEN [recipe |-> recipe, rest |-> lines]
                   ELSE _parse_header_until_unknown(recipe, Tail(lines))

_parse_header(recipe, lines) == HeaderLoop(recipe, lines, FALSE)

-----------------------------------------------------------------------------
(* _parse_ingredients_groups and _parse_ingredients                        *)

\* IngredientLine with the continuation test of line 148 left out: every line is
\* appended as a new ingredient.
IngredientLineNoContinuation(group, line) ==
    [group EXCEPT !.ingredients = Append(@, MULTI_SPACE_sub(Strip(line)))]

\* The lines of the loop body after the subheading test, for a line that is
\* neither blank nor a subheading: group is the current group (the default
\* group when there was none).
IngredientLine(group, line) ==
    LET stripped_line == MULTI_SPACE_sub(Strip(line))
        n == Len(group.ingredients)
    IN  IF StartsWith(stripped_line, <<"-">>, FALSE)
        THEN IF n = 0
             THEN [group EXCEPT !.ingredients = <<Drop(stripped_line, 2)>>]
             ELSE [group EXCEPT !.ingredients[n] = @ \o <<" ">> \o Drop(stripped_line, 2)]
        ELSE [group EXCEPT !.ingredients = Append(@, stripped_line)]

\* The loop `for line in buffer` with the statement after it: open says whether
\* ingredients_group is not None.
RECURSIVE GroupsLoop(_, _, _, _)
GroupsLoop(lines, open, ingredients_group, ingredients_groups) ==
    IF lines = << >> \/ IsBlank(Head(lines))
    THEN IF open THEN Append(ingredients_groups, ingredients_group)
         ELSE ingredients_groups
    ELSE IF SUBHEADING(Head(lines)).matched
    THEN GroupsLoop(Tail(lines), TRUE, IngredientsGroup(SUBHEADING(Head(lines)).group),
                    IF open THEN Append(ingredients_groups, ingredients_group)
                    ELSE ingredients_groups)
    ELSE GroupsLoop(Tail(lines), TRUE,
                    IngredientLine(IF open THEN ingredients_group
                                   ELSE IngredientsGroup(<< >>), Head(lines)),
                    ingredients_groups)

\* _parse_ingredients_groups with ingredients_group initialised to the default
\* group instead of None.
_parse_ingredients_groups_default_group(buffer) ==
    GroupsLoop(buffer, TRUE, IngredientsGroup(<< >>), << >>)

_parse_ingredients_groups(buffer) == GroupsLoop(buffer, FALSE, IngredientsGroup(<< >>), << >>)

\* Number of lines _parse_ingredients writes to ingredients_buffer: those before
\* the first blank line.
IngredientsBlockLen(buffer) ==
    IF \A i \in 1..Len(buffer) : ~IsBlank(buffer[i]) THEN Len(buffer)
    ELSE Min({i \in 1..Len(buffer) : IsBlank(buffer[i])}) - 1

\* The groups, and the lines of the buffer left after the block and the blank
\* line that ends it.
_parse_ingredients(buffer) ==
    [groups |-> _parse_ingredients_groups(SubSeq(buffer, 1, IngredientsBlockLen(buffer))),
     rest |-> Drop(buffer, IngredientsBlockLen(buffer) + 1)]

-----------------------------------------------------------------------------
(* _parse_recipe                                                           *)

\* The loop over categories_comment_match.group(1).split()
RECURSIVE AddCategories(_, _)
AddCategories(categories, cats) ==
    IF cats = << >> THEN categories
    ELSE LET cat == RemoveChar(Head(cats), ",")
         IN  AddCategories(IF In(cat, categories) THEN categories
                           ELSE Append(categories, cat), Tail(cats))

\* BodyLine with `and not recipe.source` left out of line 210: every source
\* comment overwrites the source.
BodyLineSourceOverwritten(st, line) ==
    IF NUTRITIONAL_LINE(line).matched
    THEN [st EXCEPT !.recipe.nutrition = NUTRITIONAL_LINE(line).group]
    ELSE IF CATEGORIES_COMMENT_LINE(line).matched
    THEN [st EXCEPT !.recipe.categories =
                AddCategories(@, SplitSpace(CATEGORIES_COMMENT_LINE(line).group))]
    ELSE IF SOURCE_COMMENT_LINE(line).matched
    THEN [st EXCEPT !.recipe.source = SOURCE_COMMENT_LINE(line).group]
    ELSE IF COMMENT_LINE(line) THEN st
    ELSE [st EXCEPT !.instructions = @ \o line]

\* One pass of the body loop: st holds the recipe and what was written to
\* instructions.
BodyLine(st, line) ==
    IF NUTRITIONAL_LINE(line).matched
    THEN [st EXCEPT !.recipe.nutrition = NUTRITIONAL_LINE(line).group]
    ELSE IF CATEGORIES_COMMENT_LINE(line).matched
    THEN [st EXCEPT !.recipe.categories =
                AddCategories(@, SplitSpace(CATEGORIES_COMMENT_LINE(line).group))]
    ELSE IF SOURCE_COMMENT_LINE(line).matched /\ st.recipe.source = << >>
    THEN [st EXCEPT !.recipe.source = SOURCE_COMMENT_LINE(line).group]
    ELSE IF COMMENT_LINE(line) THEN st
    ELSE [st EXCEPT !.instructions = @ \o line]

RECURSIVE BodyLoop(_, _)
BodyLoop(st, lines) ==
    IF lines = << >> THEN st ELSE BodyLoop(BodyLine(st, Head(lines)), Tail(lines))

\* Lines 194-220: the body loop and the clean-up of instructions.
ParseBody(recipe, lines) ==
    LET st == BodyLoop([recipe |-> recipe, instructions |-> << >>], lines)
    IN  [st.recipe EXCEPT !.instructions = ReplaceDoubleNewline(Strip(st.instructions))]

\* _parse_recipe when neither reader raises.
_parse_recipe(buffer) ==
    LET h == _parse_header(Recipe, buffer)
        i == _parse_ingredients(h.rest)
    IN  ParseBody([h.recipe EXCEPT !.ingredients_groups = i.groups], i.rest)

-----------------------------------------------------------------------------
(* parse: the generator, one action per branch of the body of              *)
(* `for line in f`. A step reads one line; the step that reads a record's  *)
(* end delimiter is the step that yields its Recipe, or raises.            *)

\* The ValueError of _parse_recipe when a reader raises: the message prefix and
\* the text formatted into it.
HeaderError(buffer) ==
    [message |-> "Error parsing header of recipe ",
     context |-> IF buffer = << >> THEN << >> ELSE Head(buffer)]
IngredientsError(buffer) ==
    [message |-> "Error parsing ingredients of recipe ",
     context |-> _parse_header(Recipe, buffer).recipe.title]

NoError == [message |-> "", context |-> << >>]

Reading == pc = "run" /\ pos <= Len(f)

\* StartRecipe with the start test made only outside a record: inside a record
\* a line of start shape is written to the buffer.
StartRecipeOutsideOnly ==
    /\ Reading
    /\ START_RECIPE(f[pos])
    /\ recipe_started' = TRUE
    /\ recipe_buffer' = IF recipe_started THEN Append(recipe_buffer, f[pos]) ELSE recipe_buffer
    /\ pos' = pos + 1
    /\ UNCHANGED <<f, yielded, pc, err, groups, text, regroups, callers>>

\* if Patterns.START_RECIPE.match(line): recipe_started = True; continue
StartRecipe ==
    /\ Reading
    /\ START_RECIPE(f[pos])
    /\ recipe_started' = TRUE
    /\ pos' = pos + 1
    /\ UNCHANGED <<f, recipe_buffer, yielded, pc, err, groups, text, regroups, callers>>

EndGuard ==
    /\ Reading
    /\ ~START_RECIPE(f[pos])
    /\ recipe_started
    /\ END_RECIPE(f[pos])

\* EndRecipe by a parser that looks one line ahead before it hands out the
\* Recipe: the line after the end delimiter is read, and lost, before the yield.
EndRecipeReadsAhead ==
    /\ EndGuard
    /\ recipe_started' = FALSE
    /\ yielded' = Append(yielded, _parse_recipe(recipe_buffer))
    /\ pc' = "yield"
    /\ pos' = Min({pos + 2, Len(f) + 1})
    /\ UNCHANGED <<f, recipe_buffer, err, groups, text, regroups, callers>>

\* if recipe_started and Patterns.END_RECIPE.match(line): recipe_started = False;
\* recipe_buffer.seek(0); yield _parse_recipe(recipe_buffer): the generator is
\* suspended at the yield, the buffer still holding the lines of the record.
EndRecipe ==
    /\ EndGuard
    /\ recipe_started' = FALSE
    /\ yielded' = Append(yielded, _parse_recipe(recipe_buffer))
    /\ pc' = "yield"
    /\ pos' = pos + 1
    /\ UNCHANGED <<f, recipe_buffer, err, groups, text, regroups, callers>>

\* EndRecipeResume without line 235: the buffer is kept for the next record.
EndRecipeResumeKeepsBuffer ==
    /\ pc = "yield"
    /\ pc' = "run"
    /\ UNCHANGED <<f, pos, recipe_started, recipe_buffer, yielded, err, groups, text, regroups, callers>>

\* The consumer asks for the next Recipe: the generator goes on after the yield.
\* recipe_buffer = io.StringIO(); continue
EndRecipeResume ==
    /\ pc = "yield"
    /\ recipe_buffer' = << >>
    /\ pc' = "run"
    /\ UNCHANGED <<f, pos, recipe_started, yielded, err, groups, text, regroups, callers>>

\* EndRecipeRaise with the failure swallowed: the bad record is skipped and the
\* loop goes on.
EndRecipeSkip ==
    /\ EndGuard
    /\ recipe_started' = FALSE
    /\ \E reader \in {"header", "ingredients"} :
          err' = IF reader = "header" THEN HeaderError(recipe_buffer)
                 ELSE IngredientsError(recipe_buffer)
    /\ recipe_buffer' = << >>
    /\ pos' = pos + 1
    /\ UNCHANGED <<f, yielded, pc, groups, text, regroups, callers>>

\* The same branch when _parse_header or _parse_ingredients raises inside
\* _parse_recipe: the ValueError leaves the generator, which is then finished.
EndRecipeRaise ==
    /\ EndGuard
    /\ recipe_started' = FALSE
    /\ \E reader \in {"header", "ingredients"} :
          err' = IF reader = "header" THEN HeaderError(recipe_buffer)
                 ELSE IngredientsError(recipe_buffer)
    /\ pc' = "raised"
    /\ pos' = pos + 1
    /\ UNCHANGED <<f, recipe_buffer, yielded, groups, text, regroups, callers>>

\* BufferLine without the `if recipe_started` of line 237: a line read outside a
\* record is written to the buffer as well.
BufferLineOutside ==
    /\ Reading
    /\ ~START_RECIPE(f[pos])
    /\ ~(recipe_started /\ END_RECIPE(f[pos]))
    /\ recipe_buffer' = Append(recipe_buffer, f[pos])
    /\ pos' = pos + 1
    /\ UNCHANGED <<f, recipe_started, yielded, pc, err, groups, text, regroups, callers>>

\* if recipe_started: recipe_buffer.write(line)
BufferLine ==
    /\ Reading
    /\ ~START_RECIPE(f[pos])
    /\ recipe_started
    /\ ~END_RECIPE(f[pos])
    /\ recipe_buffer' = Append(recipe_buffer, f[pos])
    /\ pos' = pos + 1
    /\ UNCHANGED <<f, recipe_started, yielded, pc, err, groups, text, regroups, callers>>

\* DiscardLine with the end test of line 231 made without `recipe_started and`:
\* an end delimiter outside a record assembles the buffer.
DiscardLineAssembles ==
    /\ Reading
    /\ ~START_RECIPE(f[pos])
    /\ ~recipe_started
    /\ yielded' = IF END_RECIPE(f[pos]) THEN Append(yielded, _parse_recipe(recipe_buffer))
                  ELSE yielded
    /\ pos' = pos + 1
    /\ UNCHANGED <<f, recipe_started, recipe_buffer, pc, err, groups, text, regroups, callers>>

\* No branch taken: the line is read and dropped.
DiscardLine ==
    /\ Reading
    /\ ~START_RECIPE(f[pos])
    /\ ~recipe_started
    /\ pos' = pos + 1
    /\ UNCHANGED <<f, recipe_started, recipe_buffer, yielded, pc, err, groups, text, regroups, callers>>

\* StopIteration with a flush: the lines buffered for an unfinished record are
\* assembled and yielded when the stream ends.
StopIterationFlush ==
    /\ pc = "run"
    /\ pos > Len(f)
    /\ pc' = "done"
    /\ yielded' = IF recipe_started THEN Append(yielded, _parse_recipe(recipe_buffer))
                  ELSE yielded
    /\ UNCHANGED <<f, pos, recipe_started, recipe_buffer, err, groups, text, regroups, callers>>

\* The stream is exhausted: the for loop ends and the generator returns.
StopIteration ==
    /\ pc = "run"
    /\ pos > Len(f)
    /\ pc' = "done"
    /\ UNCHANGED <<f, pos, recipe_started, recipe_buffer, yielded, err, groups, text, regroups, callers>>

Next ==
    \/ StartRecipe
    \/ EndRecipe
    \/ EndRecipeResume
    \/ EndRecipeRaise
    \/ BufferLine
    \/ DiscardLine
    \/ StopIteration

\* No command is running: the parser is driven directly by its consumer.
NoCaller ==
    /\ command = "idle" /\ mela_recipes = << >> /\ archive = << >>
    /\ recipes = << >> /\ cursor = 1 /\ log = << >>

\* parse(f) just called: nothing read, nothing yielded.
ParseStart ==
    /\ pos = 1 /\ recipe_started = FALSE /\ recipe_buffer = << >>
    /\ yielded = << >> /\ pc = "run" /\ err = NoError
    /\ groups = << >> /\ text = << >> /\ regroups = << >>
    /\ NoCaller

-----------------------------------------------------------------------------
(* convert.mealmaster_to_melarecipe: the field mapping, and the round trip *)
(* of ingredient groups through its flattened ingredients text.            *)

\* "\n".join(items)
RECURSIVE JoinNewline(_)
JoinNewline(items) ==
    IF items = << >> THEN << >>
    ELSE IF Len(items) = 1 THEN items[1]
    ELSE items[1] \o <<"\n">> \o JoinNewline(Tail(items))

\* The loop that builds `ingredients` from mm_recipe.ingredients_groups.
RECURSIVE FlattenGroups(_)
FlattenGroups(ingredients_groups) ==
    IF ingredients_groups = << >> THEN << >>
    ELSE LET group == Head(ingredients_groups)
         IN  (IF group.title # << >> THEN <<"#", " ">> \o group.title \o <<"\n">> ELSE << >>)
                 \o JoinNewline(group.ingredients) \o <<"\n">>
                 \o FlattenGroups(Tail(ingredients_groups))

\* The melarecipes.Recipe built from a mealmaster.Recipe (its generated id left out).
mealmaster_to_melarecipe(mm_recipe) ==
    [title |-> mm_recipe.title, text |-> mm_recipe.description, images |-> << >>,
     categories |-> mm_recipe.categories, yield_ |-> mm_recipe.servings,
     ingredients |-> FlattenGroups(mm_recipe.ingredients_groups),
     instructions |-> mm_recipe.instructions, nutrition |-> mm_recipe.nutrition,
     cook_time |-> mm_recipe.cook_time, prep_time |-> mm_recipe.prep_time,
     total_time |-> mm_recipe.total_time, notes |-> mm_recipe.notes,
     link |-> mm_recipe.source]

\* _parse_ingredients_groups called on the stream f.
ParseGroups ==
    /\ pc = "call"
    /\ groups' = _parse_ingredients_groups(f)
    /\ pc' = "parsed"
    /\ UNCHANGED <<f, pos, recipe_started, recipe_buffer, yielded, err, text, regroups, callers>>

\* The groups flattened to the ingredients text of the Mela recipe.
SerializeGroups ==
    /\ pc = "parsed"
    /\ text' = mealmaster_to_melarecipe([Recipe EXCEPT !.ingredients_groups = groups]).ingredients
    /\ pc' = "serialized"
    /\ UNCHANGED <<f, pos, recipe_started, recipe_buffer, yielded, err, groups, regroups, callers>>

\* _parse_ingredients_groups called on a stream over that text.
ReparseGroups ==
    /\ pc = "serialized"
    /\ regroups' = _parse_ingredients_groups(Lines(text))
    /\ pc' = "reparsed"
    /\ UNCHANGED <<f, pos, recipe_started, recipe_buffer, yielded, err, groups, text, callers>>

NextGroups == ParseGroups \/ SerializeGroups \/ ReparseGroups

-----------------------------------------------------------------------------
(* convert.mealmaster_to_melarecipes: the loop over the generator parse(file) *)
(* and the one call of melarecipes.write after it. The generator runs only    *)
(* when the loop asks for the next Recipe, that is when every Recipe yielded  *)
(* so far has been through the loop body.                                     *)

\* The for statement asks the generator for its next item.
Resumed == command = "running" /\ Len(mela_recipes) = Len(yielded)

\* parse runs one line further inside next(mm_recipes).
ParseStep == Resumed /\ Next

\* mela_recipes.append(mealmaster_to_melarecipe(mm_recipe))
ConvertRecipe ==
    /\ command = "running"
    /\ Len(mela_recipes) < Len(yielded)
    /\ mela_recipes' = Append(mela_recipes,
                              mealmaster_to_melarecipe(yielded[Len(mela_recipes) + 1]))
    /\ UNCHANGED <<f, pos, recipe_started, recipe_buffer, yielded, pc, err,
                   groups, text, regroups, command, archive, recipes, cursor, log>>

\* The same statement when building the melarecipes.Recipe raises: the exception
\* leaves the loop and the function.
ConvertRaise ==
    /\ command = "running"
    /\ Len(mela_recipes) < Len(yielded)
    /\ command' = "failed"
    /\ UNCHANGED <<f, pos, recipe_started, recipe_buffer, yielded, pc, err,
                   groups, text, regroups, mela_recipes, archive, recipes, cursor, log>>

\* The ValueError of parse leaves the loop and the function.
ParseRaised ==
    /\ command = "running"
    /\ pc = "raised"
    /\ command' = "failed"
    /\ UNCHANGED <<f, pos, recipe_started, recipe_buffer, yielded, pc, err,
                   groups, text, regroups, mela_recipes, archive, recipes, cursor, log>>

\* WriteArchive as the body of a `finally:` clause: the list collected so far is
\* written also when parse has raised.
WriteArchiveInFinally ==
    /\ command = "running"
    /\ pc \in {"done", "raised"}
    /\ archive' = Append(archive, mela_recipes)
    /\ command' = IF pc = "done" THEN "returned" ELSE "failed"
    /\ UNCHANGED <<f, pos, recipe_started, recipe_buffer, yielded, pc, err,
                   groups, text, regroups, mela_recipes, recipes, cursor, log>>

\* The loop is over (StopIteration): melarecipes.write(output, mela_recipes)
WriteArchive ==
    /\ command = "running"
    /\ pc = "done"
    /\ archive' = Append(archive, mela_recipes)
    /\ command' = "returned"
    /\ UNCHANGED <<f, pos, recipe_started, recipe_buffer, yielded, pc, err,
                   groups, text, regroups, mela_recipes, recipes, cursor, log>>

NextConvert ==
    \/ ParseStep
    \/ ConvertRecipe
    \/ ConvertRaise
    \/ ParseRaised
    \/ WriteArchive

-----------------------------------------------------------------------------
(* mela.add_images: one action per way an iteration of `for recipe in      *)
(* recipes` can go. The image search and the download are calls to the     *)
(* network: whether they answer, answer nothing or raise is the            *)
(* environment's choice.                                                   *)

\* The response bodies the download can bring.
Contents == {<<"P">>, <<"J">>}

\* base64.b64encode(content).decode() for a content of one byte
b64encode(content) ==
    IF content = <<"P">> THEN <<"U", "A", "=", "=">> ELSE <<"S", "g", "=", "=">>

\* The loop is at a record.
AtRecord == command = "running" /\ cursor <= Len(recipes)

\* if recipe.images: continue
ImagePresent ==
    /\ AtRecord
    /\ recipes[cursor].images # << >>
    /\ cursor' = cursor + 1
    /\ UNCHANGED <<f, pos, recipe_started, recipe_buffer, yielded, pc, err,
                   groups, text, regroups, command, mela_recipes, archive, recipes, log>>

\* ddgs.images(...) returns no result: warning, continue
SearchEmpty ==
    /\ AtRecord
    /\ recipes[cursor].images = << >>
    /\ log' = Append(log, <<"warning", cursor>>)
    /\ cursor' = cursor + 1
    /\ UNCHANGED <<f, pos, recipe_started, recipe_buffer, yielded, pc, err,
                   groups, text, regroups, command, mela_recipes, archive, recipes>>

\* ddgs.images(...) raises: the call is outside the inner try, so the exception
\* leaves the loop, the finally clause writes the archive, and the command fails.
SearchRaise ==
    /\ AtRecord
    /\ recipes[cursor].images = << >>
    /\ archive' = Append(archive, recipes)
    /\ command' = "failed"
    /\ UNCHANGED <<f, pos, recipe_started, recipe_buffer, yielded, pc, err,
                   groups, text, regroups, mela_recipes, recipes, cursor, log>>

\* The search has a result and the download succeeds: the encoded image is
\* appended to the record.
FetchImage ==
    /\ AtRecord
    /\ recipes[cursor].images = << >>
    /\ \E content \in Contents :
          recipes' = [recipes EXCEPT ![cursor].images = Append(@, b64encode(content))]
    /\ cursor' = cursor + 1
    /\ UNCHANGED <<f, pos, recipe_started, recipe_buffer, yielded, pc, err,
                   groups, text, regroups, command, mela_recipes, archive, log>>

\* The search has a result and the download raises: error, continue
FetchRaise ==
    /\ AtRecord
    /\ recipes[cursor].images = << >>
    /\ log' = Append(log, <<"error", cursor>>)
    /\ cursor' = cursor + 1
    /\ UNCHANGED <<f, pos, recipe_started, recipe_buffer, yielded, pc, err,
                   groups, text, regroups, command, mela_recipes, archive, recipes>>

\* The loop is over: finally: melarecipes.write(output, recipes)
WriteImages ==
    /\ command = "running"
    /\ cursor > Len(recipes)
    /\ archive' = Append(archive, recipes)
    /\ command' = "returned"
    /\ UNCHANGED <<f, pos, recipe_started, recipe_buffer, yielded, pc, err,
                   groups, text, regroups, mela_recipes, recipes, cursor, log>>

NextImages ==
    \/ ImagePresent
    \/ SearchEmpty
    \/ SearchRaise
    \/ FetchImage
    \/ FetchRaise
    \/ WriteImages

-----------------------------------------------------------------------------
(* Input streams. A line without a newline can only be the last of a file. *)

IsStream(lines) ==
    \A i \in 1..Len(lines) :
        /\ lines[i] # << >>
        /\ \A j \in 1..Len(lines[i]) : lines[i][j] = "\n" => j = Len(lines[i])
        /\ i < Len(lines) => lines[i][Len(lines[i])] = "\n"

\* Every stream of at most n lines drawn from lexicon.
Streams(lexicon, n) ==
    {s \in UNION {[1..k -> lexicon] : k \in 0..n} : IsStream(s)}

L_Start == <<"M", "M", "M", "M", "M", "-", "-", "R", "\n">>                       \* "MMMMM--R\n"
L_End == <<"M", "M", "M", "M", "M", "\n">>                                        \* "MMMMM\n"
L_EndNoNewline == <<"M", "M", "M", "M", "M">>                                     \* "MMMMM"
L_Dip == <<"M", "M", "M", "M", "M", "-", "-", "D", "i", "p", "-", "-", "\n">>     \* "MMMMM--Dip--\n"
L_Top == <<"M", "M", "M", "M", "M", "-", "-", "T", "o", "p", "-", "-", "\n">>     \* "MMMMM--Top--\n"
L_Title == <<"T", "i", "t", "l", "e", ":", " ", "a", "\n">>                       \* "Title: a\n"
L_Categories == <<"C", "a", "t", "e", "g", "o", "r", "i", "e", "s", ":", " ", "S", "o", "u", "p",
                  ",", " ", "E", "a", "s", "y", ",", " ", "E", "a", "s", "y", "\n">>
                                                             \* "Categories: Soup, Easy, Easy\n"
L_Blank == <<"\n">>                                                               \* "\n"
L_Eggs == <<"2", " ", "e", "g", "g", "s", "\n">>                                  \* "2 eggs\n"
L_Flour == <<" ", " ", " ", "1", " ", "c", "u", "p", " ", "f", "l", "o", "u", "r", "\n">>
                                                                           \* "   1 cup flour\n"
L_Sifted == <<"-", " ", "s", "i", "f", "t", "e", "d", "\n">>                      \* "- sifted\n"
L_Degrees == <<"-", "5", " ", "d", "e", "g", "r", "e", "e", "s", "\n">>           \* "-5 degrees\n"
L_Mix == <<"m", "i", "x", "\n">>                                                  \* "mix\n"
L_Energie1 == <<":", ":", "E", "n", "e", "r", "g", "i", "e", " ", ":", " ", ":", " ", "1", "\n">>
                                                                          \* "::Energie : : 1\n"
L_Energie2 == <<":", ":", "E", "n", "e", "r", "g", "i", "e", " ", ":", " ", ":", " ", "2", "\n">>
                                                                          \* "::Energie : : 2\n"
L_QuelleA == <<":", ":", "Q", "u", "e", "l", "l", "e", " ", ":", " ", ":", " ", "a", "\n">>
                                                                           \* "::Quelle : : a\n"
L_QuelleB == <<":", ":", "Q", "u", "e", "l", "l", "e", " ", ":", " ", ":", " ", "b", "\n">>
                                                                           \* "::Quelle : : b\n"
L_Stichworte == <<":", ":", "S", "t", "i", "c", "h", "w", "o", "r", "t", "e", " ", ":", " ", ":",
                  " ", "S", "o", "u", "p", ",", " ", "N", "e", "w", "\n">>
                                                               \* "::Stichworte : : Soup, New\n"

L_Servings == <<"S", "e", "r", "v", "i", "n", "g", "s", ":", " ", "4", "\n">>         \* "Servings: 4\n"
L_PrepTime == <<"P", "r", "e", "p", " ", "T", "i", "m", "e", ":", " ", "5", "\n">>    \* "Prep Time: 5\n"
L_Yield == <<"Y", "i", "e", "l", "d", ":", " ", "4", "\n">>                          \* "Yield: 4\n"
L_Spaces == <<" ", " ", "\n">>                                                     \* "  \n"
L_FormFeed == <<"\f", "\n">>                                                        \* "\f\n"

\* The line with the letters of its label, the text before the first colon, in
\* upper case: "Title: a" becomes "TITLE: a".
LabelUpper(line) ==
    LET colon == Min({i \in 1..Len(line) : line[i] = ":"})
    IN  [i \in 1..Len(line) |-> IF i < colon THEN TitleCase(line[i])[1] ELSE line[i]]

L_Sigil == <<":", ":", "\n">>                                                      \* "::\n"
L_Remark == <<":", ":", "x", "\n">>                                                \* "::x\n"
L_Tags == <<":", ":", "S", "t", "i", "c", "h", "w", "o", "r", "t", "e", " ", ":", " ", ":", " ",
            "S", "o", "u", "p", ",", "E", "a", "s", "y", " ", "N", "e", "w", ",", "\n">>
                                                         \* "::Stichworte : : Soup,Easy New,\n"
L_Stir == <<"s", "t", "i", "r", "\n">>                                             \* "stir\n"

\* Longest stream of the splitter's specification.
MaxLines == 6
\* Longest ingredients block.
MaxBlock == 4
\* Longest record body.
MaxBody == 4

\* Spec: parse over every short stream of delimiters, a header line and a text line.
SplitterLexicon == {L_Start, L_End, L_EndNoNewline, L_Title, L_Eggs}

Init == f \in Streams(SplitterLexicon, MaxLines) /\ ParseStart

Spec == Init /\ [][Next]_vars

\* SpecIngredients: parse over one record (a header line, blank line, ingredients
\* block, blank line, one line of instructions) and the blank line after it, for
\* two headers and every short ingredients block.
IngredientsLexicon == {L_Flour, L_Sifted, L_Eggs, L_Degrees, L_Dip, L_Top}

BlockOf(stream) == SubSeq(stream, 4, Len(stream) - 4)

InitIngredients ==
    /\ \E header \in {L_Title, L_Categories}, block \in Streams(IngredientsLexicon, MaxBlock) :
          f = <<L_Start, header, L_Blank>> \o block \o <<L_Blank, L_Mix, L_End, L_Blank>>
    /\ ParseStart

SpecIngredients == InitIngredients /\ [][Next]_vars

\* SpecBody: parse over one record and the blank line after it, for two headers
\* and every short body of metadata comment lines and text.
BodyLexicon == {L_Energie1, L_Energie2, L_QuelleA, L_QuelleB, L_Stichworte, L_Mix}

BodyOf(stream) == SubSeq(stream, 6, Len(stream) - 2)

InitBody ==
    /\ \E header \in {L_Title, L_Categories}, body \in Streams(BodyLexicon, MaxBody) :
          f = <<L_Start, header, L_Blank, L_Eggs, L_Blank>> \o body \o <<L_End, L_Blank>>
    /\ ParseStart

SpecBody == InitBody /\ [][Next]_vars

\* SpecComments: parse over one record and the blank line after it, for two
\* headers and every short body of comment lines (category lists, untagged, the
\* sigil alone) and text.
CommentLexicon == {L_Sigil, L_Remark, L_Stichworte, L_Tags, L_Mix, L_Stir}

InitComments ==
    /\ \E header \in {L_Title, L_Categories}, body \in Streams(CommentLexicon, MaxBody) :
          f = <<L_Start, header, L_Blank, L_Eggs, L_Blank>> \o body \o <<L_End, L_Blank>>
    /\ ParseStart

SpecComments == InitComments /\ [][Next]_vars

\* SpecGroups: _parse_ingredients_groups called on every short block, its result
\* flattened by the converter and parsed again.
GroupsLexicon == IngredientsLexicon \cup {L_Blank}

InitGroups ==
    /\ f \in Streams(GroupsLexicon, MaxBlock)
    /\ pos = 1 /\ recipe_started = FALSE /\ recipe_buffer = << >>
    /\ yielded = << >> /\ pc = "call" /\ err = NoError
    /\ groups = << >> /\ text = << >> /\ regroups = << >>
    /\ NoCaller

SpecGroups == InitGroups /\ [][NextGroups]_vars

\* Longest header section.
MaxHeader == 3

\* SpecHeader: parse over one record and the blank line after it: every short
\* header section of field lines in canonical and in upper-case spelling, an
\* unknown field line, an empty line, a line of spaces and a line of one form
\* feed, followed by an ingredient line, an empty line and a line of
\* instructions.
CanonicalLines == {L_Title, L_Servings, L_PrepTime}
HeaderLexicon ==
    CanonicalLines \cup {LabelUpper(l) : l \in CanonicalLines} \cup
        {L_Yield, L_Blank, L_Spaces, L_FormFeed}

HeadOf(stream) == SubSeq(stream, 2, Len(stream) - 5)
RecordOf(stream) == SubSeq(stream, 2, Len(stream) - 2)

InitHeader ==
    /\ \E head \in Streams(HeaderLexicon, MaxHeader) :
          f = <<L_Start>> \o head \o <<L_Eggs, L_Blank, L_Mix, L_End, L_Blank>>
    /\ ParseStart

SpecHeader == InitHeader /\ [][Next]_vars

\* Longest record of the record specification.
MaxRecord == 5

\* SpecRecord: parse over one record and the blank line after it, for every
\* short record of field lines, empty lines, an ingredient line and a text line
\* in any order.
RecordLexicon == {L_Title, L_Servings, L_Blank, L_Eggs, L_Mix}

InitRecord ==
    /\ \E rec \in Streams(RecordLexicon, MaxRecord) :
          f = <<L_Start>> \o rec \o <<L_End, L_Blank>>
    /\ ParseStart

SpecRecord == InitRecord /\ [][Next]_vars

\* Longest input file of the converter's specification.
MaxInput == 6

\* SpecConvert: mealmaster_to_melarecipes over every short file of delimiters, a
\* header line and a text line.
ConvertLexicon == {L_Start, L_End, L_Title, L_Eggs}

InitConvert ==
    /\ f \in Streams(ConvertLexicon, MaxInput)
    /\ pos = 1 /\ recipe_started = FALSE /\ recipe_buffer = << >>
    /\ yielded = << >> /\ pc = "run" /\ err = NoError
    /\ groups = << >> /\ text = << >> /\ regroups = << >>
    /\ command = "running" /\ mela_recipes = << >> /\ archive = << >>
    /\ recipes = << >> /\ cursor = 1 /\ log = << >>

SpecConvert == InitConvert /\ [][NextConvert]_vars

\* Most records in the archive add_images works on.
MaxRecipes == 3

\* SpecImages: add_images over every short archive of records with and without
\* an image.
ArchiveRecords == {[title |-> <<"A">>, images |-> << >>],
                   [title |-> <<"B">>, images |-> <<b64encode(<<"P">>)>>]}

InitImages ==
    /\ recipes \in UNION {[1..n -> ArchiveRecords] : n \in 0..MaxRecipes}
    /\ f = << >> /\ pos = 1 /\ recipe_started = FALSE /\ recipe_buffer = << >>
    /\ yielded = << >> /\ pc = "run" /\ err = NoError
    /\ groups = << >> /\ text = << >> /\ regroups = << >>
    /\ command = "running" /\ mela_recipes = << >> /\ archive = << >>
    /\ cursor = 1 /\ log = << >>

SpecImages == InitImages /\ [][NextImages]_vars
-----------------------------------------------------------------------------
(* The records of a stream, told by the positions of its delimiter lines.  *)

StartIdx(s) == {i \in 1..Len(s) : START_RECIPE(s[i])}
EndIdx(s) == {i \in 1..Len(s) : END_RECIPE(s[i])}

\* The k-th smallest element of a set of numbers.
Nth(S, k) == CHOOSE x \in S : Cardinality({y \in S : y < x}) = k - 1

NRecords(s) == Cardinality(StartIdx(s))

\* The stream is made of well-formed records: its start and end delimiters
\* alternate, start first, and every other line is non-delimiter text.
WellFormed(s) ==
    /\ Cardinality(EndIdx(s)) = NRecords(s)
    /\ \A k \in 1..NRecords(s) :
          /\ Nth(StartIdx(s), k) < Nth(EndIdx(s), k)
          /\ k < NRecords(s) => Nth(EndIdx(s), k) < Nth(StartIdx(s), k + 1)

\* The interior lines of the k-th record of a well-formed stream.
RecordLines(s, k) == SubSeq(s, Nth(StartIdx(s), k) + 1, Nth(EndIdx(s), k) - 1)

\* Line i of a well-formed stream lies in no record.
Outside(s, i) ==
    \A k \in 1..NRecords(s) : i < Nth(StartIdx(s), k) \/ i > Nth(EndIdx(s), k)

-----------------------------------------------------------------------------
(* Claims about the splitter, checked under Spec.                          *)

\* C1: when parse has consumed a stream made of N well-formed records, with any
\* non-delimiter text before, between and after them, it has yielded exactly N
\* Recipes, the k-th being the Recipe assembled from the interior lines of the
\* k-th record.
C1_YieldsEveryRecordInOrder ==
    (pc = "done" /\ WellFormed(f)) =>
        yielded = [k \in 1..NRecords(f) |-> _parse_recipe(RecordLines(f, k))]

\* Two records with different Recipes, and text outside them, were parsed.
C1_Witness ==
    /\ pc = "done" /\ WellFormed(f) /\ NRecords(f) = 2
    /\ Len(yielded) = 2 /\ yielded[1] # yielded[2]
    /\ \E i \in 1..Len(f) : Outside(f, i)

\* Some start delimiter at or before line p has no end delimiter after it.
UnterminatedBy(p) ==
    \E s \in StartIdx(f) : s <= p /\ \A e \in EndIdx(f) : e < s

\* C8: a Recipe is yielded only by the step that reads a record-end delimiter
\* while inside a record; from the start delimiter of a record that is never
\* ended on, nothing is yielded; and when the stream has ended inside a record
\* that follows well-formed records, exactly their Recipes were yielded.
C8_NoPartialRecord ==
    /\ [][yielded' # yielded =>
            /\ recipe_started /\ pos <= Len(f) /\ END_RECIPE(f[pos])
            /\ pos' = pos + 1
            /\ yielded' = Append(yielded, _parse_recipe(recipe_buffer))]_vars
    /\ [][UnterminatedBy(pos) => yielded' = yielded]_vars
    /\ [](\A s \in StartIdx(f) :
            (/\ pc = "done"
             /\ \A i \in s + 1..Len(f) : ~START_RECIPE(f[i]) /\ ~END_RECIPE(f[i])
             /\ WellFormed(SubSeq(f, 1, s - 1)))
            => yielded = [k \in 1..NRecords(SubSeq(f, 1, s - 1)) |->
                            _parse_recipe(RecordLines(SubSeq(f, 1, s - 1), k))])

\* The stream ended inside a record with lines buffered, after one Recipe.
C8_Witness ==
    /\ pc = "done" /\ recipe_started /\ recipe_buffer # << >>
    /\ Len(yielded) = 1 /\ UnterminatedBy(Len(f))

\* C9: a step that reads, outside a record, a line that is not a record-start
\* delimiter changes nothing but the read position: nothing is buffered or
\* yielded, the state stays outside-record and no error is raised, also when
\* the line is a record-end delimiter.
C9_OutsideLinesDiscarded ==
    [][(pc = "run" /\ pos <= Len(f) /\ ~recipe_started /\ ~START_RECIPE(f[pos])) =>
          /\ pos' = pos + 1
          /\ recipe_buffer' = recipe_buffer /\ yielded' = yielded
          /\ recipe_started' = FALSE /\ pc' = "run" /\ err' = err]_vars

\* A record-end delimiter was read outside a record, after a record was yielded.
C9_Witness ==
    /\ pos > 2 /\ END_RECIPE(f[pos - 1]) /\ END_RECIPE(f[pos - 2])
    /\ ~recipe_started /\ Len(yielded) = 1 /\ recipe_buffer = << >> /\ pc = "run"

\* C10: when a reader fails while the k-th record is assembled, the generator
\* ends with the wrapped error, which carries the record's first line (header
\* failure) or the title read from its header (ingredients failure); the k-1
\* earlier Recipes are what was yielded, and nothing is yielded by the failing
\* step or after it.
C10_FailureAbortsSequence ==
    /\ [](err # NoError =>
            /\ pc = "raised"
            /\ WellFormed(SubSeq(f, 1, pos - 1)) =>
                  LET p == SubSeq(f, 1, pos - 1)
                      k == NRecords(p)
                  IN  /\ k >= 1
                      /\ yielded = [j \in 1..k - 1 |-> _parse_recipe(RecordLines(p, j))]
                      /\ \/ /\ err.message = "Error parsing header of recipe "
                            /\ err.context = IF RecordLines(p, k) = << >> THEN << >>
                                             ELSE RecordLines(p, k)[1]
                         \/ /\ err.message = "Error parsing ingredients of recipe "
                            /\ err.context = _parse_recipe(RecordLines(p, k)).title)
    /\ [][err' # NoError => yielded' = yielded]_vars

\* The second record failed in the ingredients reader with its title known, one
\* Recipe had been yielded, and lines of the stream are left unread.
C10_Witness ==
    /\ pc = "raised" /\ Len(yielded) = 1 /\ pos <= Len(f)
    /\ err.message = "Error parsing ingredients of recipe "
    /\ err.context = <<"A">>

\* The end delimiters of s that end a record: those read inside a record, that
\* is with a start delimiter before them and no end delimiter in between.
Closings(s) ==
    LET starts == StartIdx(s)
        ends == EndIdx(s)
    IN  {i \in ends : \E a \in starts : a < i /\ \A e \in ends : ~(a < e /\ e < i)}

\* C13: parse reads the stream once and forward, one step per line: every step
\* of the running generator reads exactly the next line, in order, while the
\* stream has lines left, and resuming it after a yield reads nothing and
\* yields nothing. The k-th Recipe is yielded by the step
\* that reads the end delimiter of the k-th record, so at that moment the lines
\* read are exactly those up to and including that delimiter, and at any
\* moment the Recipes yielded are as many as the records ended among the lines
\* read. When the stream is exhausted the generator ends: nothing is read or
\* yielded and no error is raised by that step.
C13_LazySinglePass ==
    /\ [][\/ /\ pc = "run"
             /\ IF pos <= Len(f) THEN pos' = pos + 1
                ELSE pos' = pos /\ pc' = "done" /\ err' = NoError /\ yielded' = yielded
          \/ /\ pc = "yield"
             /\ pos' = pos /\ yielded' = yielded /\ err' = err /\ pc' = "run"]_vars
    /\ [][yielded' # yielded =>
            /\ Len(yielded') = Len(yielded) + 1
            /\ pos = Nth(Closings(f), Len(yielded'))
            /\ pos' = pos + 1 /\ pc' = "yield"]_vars
    /\ [](err = NoError => Len(yielded) = Cardinality(Closings(SubSeq(f, 1, pos - 1))))
    /\ [](pc = "done" => pos = Len(f) + 1 /\ err = NoError)

\* The first of two records was just yielded: the lines of the second are unread.
C13_Witness ==
    /\ pc = "yield" /\ Len(yielded) = 1 /\ err = NoError
    /\ Cardinality(Closings(f)) = 2
    /\ pos = Nth(Closings(f), 1) + 1
    /\ START_RECIPE(f[pos])

\* The stream with a newline added to its last line.
NewlineEnded(s) ==
    IF s = << >> \/ s[Len(s)][Len(s[Len(s)])] = "\n" THEN s
    ELSE [s EXCEPT ![Len(s)] = Append(@, "\n")]

\* C22: a delimiter line is classified the same with or without its trailing
\* newline: when parse has consumed a stream whose last line is the record-end
\* marker without a newline, it has yielded what it yields for the same stream
\* ended by a newline: one Recipe per record ended, that of the final record
\* included, and for a stream of well-formed records the Recipe of each.
C22_EndWithoutNewlineEnds ==
    (pc = "done" /\ f # << >> /\ f[Len(f)] = L_EndNoNewline) =>
        LET g == NewlineEnded(f)
        IN  /\ Len(yielded) = Cardinality(Closings(g))
            /\ WellFormed(g) =>
                  yielded = [k \in 1..NRecords(g) |-> _parse_recipe(RecordLines(g, k))]

\* The start delimiter that opened the record ended by the end delimiter at e:
\* the first start delimiter before e with no end delimiter in between.
Opening(s, e) ==
    Min({a \in StartIdx(s) : a < e /\ \A x \in EndIdx(s) : ~(a < x /\ x < e)})

\* The lines buffered for the record ended at e: those between its delimiters
\* that are not of start shape.
Buffered(s, e) ==
    LET notStart(line) == ~START_RECIPE(line)
    IN  SelectSeq(SubSeq(s, Opening(s, e) + 1, e - 1), notStart)

\* C24 (as claimed): record isolation, under Spec. Whenever parse is outside a
\* record its record buffer is empty, and every Recipe yielded is assembled from
\* the lines buffered between the delimiters of its own record alone.
C24_OutsideBufferAlwaysEmpty ==
    /\ (pc # "raised" /\ ~recipe_started) => recipe_buffer = << >>
    /\ err = NoError =>
          LET p == SubSeq(f, 1, pos - 1)
          IN  \A k \in 1..Len(yielded) :
                yielded[k] = _parse_recipe(Buffered(p, Nth(Closings(p), k)))

\* C24 (amended): record isolation, under Spec. Whenever parse is outside a
\* record and about to read a line, or the stream has ended outside a record,
\* its record buffer is empty: the step that yields a Recipe assembles it from
\* the buffer, starting from a fresh Recipe, and leaves the buffer as it is
\* while parse is suspended at the yield; resuming parse empties the buffer
\* before the next line is read. So as long as no reader has failed the k-th
\* Recipe yielded is the one assembled from the lines buffered between the
\* start and end delimiters of the k-th record alone, whatever the lines of the
\* records and the text before it, and the lines buffered after it all come
\* from after its end delimiter.
C24_RecordIsolation ==
    /\ []((pc \in {"run", "done"} /\ ~recipe_started) => recipe_buffer = << >>)
    /\ [][yielded' # yielded =>
            /\ yielded' = Append(yielded, _parse_recipe(recipe_buffer))
            /\ recipe_buffer' = recipe_buffer /\ ~recipe_started' /\ pc' = "yield"]_vars
    /\ [][pc = "yield" => (recipe_buffer' = << >> /\ pc' = "run" /\ pos' = pos)]_vars
    /\ [](err = NoError =>
            LET p == SubSeq(f, 1, pos - 1)
            IN  /\ Len(yielded) = Cardinality(Closings(p))
                /\ \A k \in 1..Len(yielded) :
                      yielded[k] = _parse_recipe(Buffered(p, Nth(Closings(p), k)))
                /\ recipe_started =>
                      \A k \in 1..Len(yielded), i \in 1..Len(recipe_buffer) :
                          \E j \in Nth(Closings(p), k) + 1..pos - 1 : f[j] = recipe_buffer[i])

\* A record with a title and ingredients was yielded, then a record with
\* neither: the second Recipe has nothing of the first.
C24_Witness ==
    /\ pc = "done" /\ Len(yielded) = 2
    /\ f = <<L_Start, L_Title, L_Eggs, L_End, L_Start, L_End>>
    /\ yielded[1].title = <<"A">>
    /\ yielded[2] = Recipe

-----------------------------------------------------------------------------
(* Claims about the ingredients reader.                                    *)

\* The line as the ingredients reader normalizes it (line 147).
Normalized(line) == MULTI_SPACE_sub(Strip(line))

\* The line starts with the continuation marker "- ".
IsContinuation(line) == StartsWith(Normalized(line), <<"-", " ">>, FALSE)

\* The line is an ingredient line proper: no subheading, no leading dash.
IsIngredient(line) ==
    /\ ~IsBlank(line) /\ ~SUBHEADING(line).matched /\ ~START_RECIPE(line)
    /\ ~StartsWith(Normalized(line), <<"-">>, FALSE)

\* The text a subheading line names: what stands between its runs of dashes.
SubheadingText(line) ==
    LET t == DotStar(Drop(line, Len(MMMMM)))
        a == IF \A i \in 1..Len(t) : t[i] = "-" THEN Len(t)
             ELSE Min({i \in 1..Len(t) : t[i] # "-"}) - 1
        b == IF \A i \in 1..Len(t) : t[i] = "-" THEN Len(t)
             ELSE Max({i \in 1..Len(t) : t[i] # "-"})
    IN  IF a >= b THEN << >> ELSE SubSeq(t, a + 1, b)

\* The ingredient entries of a run of lines that holds no subheading.
Entries(lines) ==
    LET g == _parse_ingredients_groups(lines)
    IN  IF g = << >> THEN << >> ELSE g[1].ingredients

\* Number of ingredient entries in a sequence of groups.
RECURSIVE NEntries(_)
NEntries(gs) == IF gs = << >> THEN 0 ELSE Len(Head(gs).ingredients) + NEntries(Tail(gs))

\* C2 (as claimed): a record whose ingredients block is a subheading line,
\* ingredient lines, a second subheading line and more ingredient lines yields a
\* Recipe with exactly two groups, each titled with the text of its own
\* subheading and holding the lines that followed it. Checked under
\* SpecIngredients.
C2_TwoSubheadingsTwoGroups ==
    pc = "done" =>
        \A i \in 2..Len(BlockOf(f)) - 1 :
            LET block == BlockOf(f)
                A == SubSeq(block, 2, i - 1)
                B == SubSeq(block, i + 1, Len(block))
            IN  (/\ SUBHEADING(block[1]).matched /\ SUBHEADING(block[i]).matched
                 /\ A # << >> /\ B # << >>
                 /\ \A j \in 1..Len(A) : IsIngredient(A[j]) \/ (j > 1 /\ IsContinuation(A[j]))
                 /\ \A j \in 1..Len(B) : IsIngredient(B[j]) \/ (j > 1 /\ IsContinuation(B[j])))
                => yielded[1].ingredients_groups =
                     <<[title |-> SubheadingText(block[1]), ingredients |-> Entries(A)],
                       [title |-> SubheadingText(block[i]), ingredients |-> Entries(B)]>>

\* C23: under SpecIngredients, a step of parse that reads a line of record-start
\* shape, inside or outside a record, only sets the inside-record state and
\* moves on: the line is not written to the record buffer, the buffer is not
\* reset and nothing is yielded. Every line of subheading shape has record-start
\* shape, so no such line is ever in the buffer, and every Recipe yielded has
\* at most one ingredient group, titled with the empty string.
C23_StartLineNeverBuffered ==
    /\ [][(pc = "run" /\ pos <= Len(f) /\ START_RECIPE(f[pos])) =>
            /\ recipe_started' /\ pos' = pos + 1
            /\ recipe_buffer' = recipe_buffer /\ yielded' = yielded
            /\ pc' = "run" /\ err' = err]_vars
    /\ [](\A i \in 1..Len(f) : SUBHEADING(f[i]).matched => START_RECIPE(f[i]))
    /\ [](\A i \in 1..Len(recipe_buffer) :
            ~START_RECIPE(recipe_buffer[i]) /\ ~SUBHEADING(recipe_buffer[i]).matched)
    /\ [](\A k \in 1..Len(yielded) :
            /\ Len(yielded[k].ingredients_groups) <= 1
            /\ \A j \in 1..Len(yielded[k].ingredients_groups) :
                  yielded[k].ingredients_groups[j].title = << >>)

\* A record with two subheading lines between its ingredient lines was parsed:
\* its Recipe has one untitled group that holds the ingredients of both.
C23_Witness ==
    /\ pc = "done"
    /\ BlockOf(f) = <<L_Dip, L_Eggs, L_Top, L_Flour>>
    /\ Len(yielded) = 1
    /\ Len(yielded[1].ingredients_groups) = 1
    /\ yielded[1].ingredients_groups[1].title = << >>
    /\ Len(yielded[1].ingredients_groups[1].ingredients) = 2

\* C3: under SpecIngredients, an ingredient line followed by a line that starts
\* with the continuation marker yields one untitled group with one ingredient:
\* the normalized first line, a space, and the rest of the continuation line
\* after the marker ("   1 cup flour" then "- sifted" gives "1 cup flour
\* sifted"); and among the lines that reach the reader, a continuation line
\* after the first line adds no entry: it extends the last one.
C3_ContinuationJoinsPrevious ==
    pc = "done" =>
        LET block == BlockOf(f)
            reach == SelectSeq(block, LAMBDA l : ~START_RECIPE(l))
        IN  /\ (Len(block) = 2 /\ IsIngredient(block[1]) /\ IsContinuation(block[2])) =>
                  yielded[1].ingredients_groups =
                     <<[title |-> << >>,
                        ingredients |-> <<Normalized(block[1]) \o <<" ">>
                                            \o Drop(Normalized(block[2]), 2)>>]>>
            /\ block = <<L_Flour, L_Sifted>> =>
                  yielded[1].ingredients_groups[1].ingredients =
                     <<<<"1", " ", "c", "u", "p", " ", "f", "l", "o", "u", "r", " ",
                         "s", "i", "f", "t", "e", "d">>>>
            /\ yielded[1].ingredients_groups = _parse_ingredients_groups(reach)
            /\ \A i \in 2..Len(reach) :
                  IsContinuation(reach[i]) =>
                     LET before == Entries(SubSeq(reach, 1, i - 1))
                         after == Entries(SubSeq(reach, 1, i))
                     IN  /\ Len(after) = Len(before)
                         /\ after[Len(after)] = before[Len(before)] \o <<" ">>
                                                   \o Drop(Normalized(reach[i]), 2)

\* The record with the block "   1 cup flour", "- sifted" was parsed.
C3_Witness ==
    /\ pc = "done" /\ BlockOf(f) = <<L_Flour, L_Sifted>>
    /\ Len(yielded) = 1
    /\ NEntries(yielded[1].ingredients_groups) = 1

\* C4: under SpecIngredients, a record whose header is directly followed by two
\* blank lines yields a Recipe whose ingredients_groups is empty.
C4_EmptyIngredientsNoGroup ==
    (pc = "done" /\ BlockOf(f) = << >>) =>
        /\ Len(yielded) = 1
        /\ yielded[1].ingredients_groups = << >>

\* Such a record was parsed: its header was read and its body is its instructions.
C4_Witness ==
    /\ pc = "done" /\ BlockOf(f) = << >> /\ f[3] = L_Blank /\ f[4] = L_Blank
    /\ Len(yielded) = 1
    /\ yielded[1].title = <<"A">>
    /\ yielded[1].instructions = <<"m", "i", "x">>

\* C15 (as claimed): under SpecIngredients, among the lines that reach the
\* reader, every line that does not start with the marker "- " once normalized,
\* also one that starts with "-" and another character ("-5 degrees"), is
\* appended whole as a new entry: the entries after it are the entries before
\* it and its normalized text.
C15_OnlyDashSpaceContinues ==
    pc = "done" =>
        LET reach == SelectSeq(BlockOf(f), LAMBDA l : ~START_RECIPE(l))
        IN  /\ yielded[1].ingredients_groups = _parse_ingredients_groups(reach)
            /\ \A i \in 1..Len(reach) :
                  ~IsContinuation(reach[i]) =>
                     Entries(SubSeq(reach, 1, i)) =
                        Append(Entries(SubSeq(reach, 1, i - 1)), Normalized(reach[i]))

\* C16 (as claimed): under SpecGroups, every group _parse_ingredients_groups
\* returns holds at least one ingredient, also when a subheading line is
\* directly followed by another subheading line, by the blank line that ends
\* the block or by the end of the input.
C16_NoEmptyGroup ==
    pc # "call" => \A i \in 1..Len(groups) : groups[i].ingredients # << >>

\* The lines of a block that start an ingredient entry: every line that is no
\* subheading and no continuation, and every continuation line that is the
\* first line of the block or the first line after a subheading.
EntryStarts(block) ==
    {i \in 1..Len(block) :
        /\ ~SUBHEADING(block[i]).matched
        /\ \/ ~StartsWith(Normalized(block[i]), <<"-">>, FALSE)
           \/ IsContinuation(block[i]) /\ (i = 1 \/ SUBHEADING(block[i - 1]).matched)}

\* The block holds no line that starts with a dash without being a continuation.
NoBareDash(block) ==
    \A i \in 1..Len(block) :
        StartsWith(Normalized(block[i]), <<"-">>, FALSE) => IsContinuation(block[i])

\* C19 (as claimed): under SpecIngredients, a continuation line that is the
\* first line of the block or the first line after a subheading starts a new
\* ingredient, the rest of the line after the marker, and is joined to no
\* ingredient of a previous group: the Recipe has one entry for every line that
\* starts an entry; and no error is raised, the record is yielded.
C19_ContinuationWithoutPrevious ==
    pc = "done" =>
        LET block == BlockOf(f)
        IN  /\ Len(yielded) = 1 /\ err = NoError
            /\ (block # << >> /\ IsContinuation(block[1])) =>
                  StartsWith(yielded[1].ingredients_groups[1].ingredients[1],
                             Drop(Normalized(block[1]), 2), FALSE)
            /\ NoBareDash(block) =>
                  NEntries(yielded[1].ingredients_groups) = Cardinality(EntryStarts(block))

\* C7 (as claimed): under SpecGroups, the groups parsed from a block, flattened
\* to grouped text and parsed again, come back with the same number of groups,
\* the same titles and the same ingredients in the same order.
C7_GroupsRoundTrip ==
    pc = "reparsed" => regroups = groups

-----------------------------------------------------------------------------
(* Claims about the body reader, checked under SpecBody.                   *)

\* s holds sub as a substring.
Contains(s, sub) ==
    \E i \in 0..Len(s) - Len(sub) : SubSeq(s, i + 1, i + Len(sub)) = sub

NutritionIdx(body) == {i \in 1..Len(body) : NUTRITIONAL_LINE(body[i]).matched}
SourceIdx(body) == {i \in 1..Len(body) : SOURCE_COMMENT_LINE(body[i]).matched}

\* C5: for a body with nutrition and source comment lines in any order, the
\* Recipe's nutrition is the value of the last nutrition line, its source is the
\* value of the first source line, and none of these lines is in instructions.
C5_NutritionLastSourceFirst ==
    pc = "done" =>
        LET body == BodyOf(f)
            r == yielded[1]
        IN  /\ Len(yielded) = 1
            /\ NutritionIdx(body) # {} =>
                  r.nutrition = NUTRITIONAL_LINE(body[Max(NutritionIdx(body))]).group
            /\ SourceIdx(body) # {} =>
                  r.source = SOURCE_COMMENT_LINE(body[Min(SourceIdx(body))]).group
            /\ \A i \in NutritionIdx(body) \cup SourceIdx(body) :
                  ~Contains(r.instructions, Strip(body[i]))

\* A body with two different nutrition lines and two different source lines was
\* parsed.
C5_Witness ==
    /\ pc = "done" /\ Len(yielded) = 1
    /\ LET body == BodyOf(f)
       IN  /\ Cardinality(NutritionIdx(body)) = 2 /\ Cardinality(SourceIdx(body)) = 2
           /\ body[Min(NutritionIdx(body))] # body[Max(NutritionIdx(body))]
           /\ body[Min(SourceIdx(body))] # body[Max(SourceIdx(body))]
           /\ Min(SourceIdx(body)) < Min(NutritionIdx(body))
    /\ yielded[1].nutrition # << >> /\ yielded[1].source # << >>

\* C6 (as claimed): the header line "Categories: Soup, Easy, Easy" alone yields
\* the categories Soup, Easy; and the categories of a yielded Recipe never hold
\* an entry twice.
C6_CategoriesDeduplicated ==
    pc = "done" =>
        \A k \in 1..Len(yielded) :
            /\ \A i, j \in 1..Len(yielded[k].categories) :
                  yielded[k].categories[i] = yielded[k].categories[j] => i = j
            /\ (f[2] = L_Categories /\ \A i \in 1..Len(BodyOf(f)) : BodyOf(f)[i] # L_Stichworte)
                  => yielded[k].categories = <<<<"S", "o", "u", "p">>, <<"E", "a", "s", "y">>>>
\* The lines written one after the other.
RECURSIVE Concat(_)
Concat(lines) == IF lines = << >> THEN << >> ELSE Head(lines) \o Concat(Tail(lines))

\* The line begins with the comment sigil "::".
HasSigil(line) == Len(line) >= 2 /\ line[1] = ":" /\ line[2] = ":"

\* C17 (as claimed): under SpecComments, no body line that begins with "::",
\* tagged, untagged or the sigil alone, is in the instructions, and the lines
\* that do not begin with it are all there, verbatim and in order: the
\* instructions are those lines one after the other, stripped and with double
\* newlines collapsed as line 218 does.
C17_NoCommentInInstructions ==
    pc = "done" =>
        yielded[1].instructions =
            ReplaceDoubleNewline(Strip(Concat(SelectSeq(BodyOf(f), LAMBDA l : ~HasSigil(l)))))

\* The token without the commas it ends with.
RECURSIVE StripTrailingCommas(_)
StripTrailingCommas(token) ==
    IF token # << >> /\ token[Len(token)] = ","
    THEN StripTrailingCommas(SubSeq(token, 1, Len(token) - 1)) ELSE token

\* The categories after the tokens of one category-list value, as claimed.
RECURSIVE ClaimedAdd(_, _)
ClaimedAdd(categories, tokens) ==
    IF tokens = << >> THEN categories
    ELSE LET cat == StripTrailingCommas(Head(tokens))
         IN  ClaimedAdd(IF In(cat, categories) THEN categories ELSE Append(categories, cat),
                        Tail(tokens))

\* The categories after the category-list comment lines of a body, as claimed.
RECURSIVE ClaimedCategories(_, _)
ClaimedCategories(categories, body) ==
    IF body = << >> THEN categories
    ELSE ClaimedCategories(
            IF CATEGORIES_COMMENT_LINE(Head(body)).matched
            THEN ClaimedAdd(categories, SplitSpace(CATEGORIES_COMMENT_LINE(Head(body)).group))
            ELSE categories,
            Tail(body))

\* C20 (as claimed): under SpecComments, the categories of the Recipe are the
\* categories of the header, in place, followed by the tokens of the body's
\* category-list lines in order of first appearance, each token being a
\* whitespace-separated piece of the value without its trailing commas, added
\* only when not yet present.
C20_CategoryTokensAppended ==
    pc = "done" =>
        yielded[1].categories =
            ClaimedCategories(_parse_header(Recipe, <<f[2]>>).recipe.categories, BodyOf(f))

-----------------------------------------------------------------------------
(* Claims about the converter command, checked under SpecConvert.          *)

\* C11: melarecipes.write is called at most once, only after parse has read the
\* whole input without error and every Recipe it yielded has been converted,
\* and it is given the conversions of all of them in order (those of the N
\* records when the file is made of well-formed records); when parsing or
\* mapping a record fails, nothing was written and nothing is written after.
C11_AllOrNothing ==
    /\ [][archive' # archive =>
            /\ archive = << >>
            /\ pc = "done" /\ pos > Len(f) /\ err = NoError
            /\ archive' = <<[k \in 1..Len(yielded) |-> mealmaster_to_melarecipe(yielded[k])]>>
            /\ WellFormed(f) =>
                  archive' = <<[k \in 1..NRecords(f) |->
                                  mealmaster_to_melarecipe(_parse_recipe(RecordLines(f, k)))]>>]_vars
    /\ [](command = "failed" => archive = << >>)
    /\ [][command = "failed" => archive' = archive]_vars

\* The command failed on the second record, after the first was converted.
C11_Witness ==
    /\ command = "failed" /\ pc = "raised"
    /\ Len(mela_recipes) = 1 /\ mela_recipes[1].title = <<"A">>
    /\ archive = << >>
-----------------------------------------------------------------------------
(* Claims about the image enrichment command, checked under SpecImages.    *)

\* C12 (as claimed): a failure of the image search or of the download for one
\* record is logged and the record skipped: every step that handles a record
\* leaves the command running at the next record, so the command ends only
\* after every record was handled and is never aborted.
C12_FailureNeverAbortsBatch ==
    command # "running" => (command = "returned" /\ cursor > Len(recipes))
-----------------------------------------------------------------------------
(* Claims about the header reader, checked under SpecHeader.               *)

\* The line sets a field: one of the header patterns matches it.
Recognized(line) == HeaderLine(Recipe, line).set

\* The blank lines of a record that stand after a line that sets a field.
Terminators(rec) ==
    {i \in 1..Len(rec) : IsBlank(rec[i]) /\ \E j \in 1..i - 1 : Recognized(rec[j])}

\* The lines of a record the header reader consumes.
HeaderLen(rec) == IF Terminators(rec) = {} THEN Len(rec) ELSE Min(Terminators(rec))

\* C18: the header ends at the first whitespace-only line that stands after a
\* line that set a field, and at no other line: the header fields of the
\* Recipe are those set by the field lines before that line alone (blank lines
\* and unrecognized lines before it change nothing), and the ingredients and
\* the body are read from the lines right after it; without such a line the
\* header reader consumes the whole record.
C18_BlankEndsStartedHeader ==
    pc = "done" =>
        LET rec == RecordOf(f)
            n == HeaderLen(rec)
            fields == SelectSeq(SubSeq(rec, 1, n), Recognized)
            h == _parse_header(Recipe, fields).recipe
            i == _parse_ingredients(Drop(rec, n))
        IN  /\ yielded = <<ParseBody([h EXCEPT !.ingredients_groups = i.groups], i.rest)>>
            /\ \A k \in 1..n : ~Recognized(rec[k]) =>
                  _parse_header(Recipe, SubSeq(rec, 1, k)).recipe =
                     _parse_header(Recipe, SubSeq(rec, 1, k - 1)).recipe

\* A record whose header starts with an unknown field line and a
\* whitespace-only line was parsed: the header went on to the title and ended
\* at the first blank line after it.
C18_Witness ==
    /\ pc = "done"
    /\ HeadOf(f) = <<L_Yield, L_Spaces, L_Title>>
    /\ HeaderLen(RecordOf(f)) = 5
    /\ yielded[1].title = <<"A">>
    /\ yielded[1].ingredients_groups = <<[title |-> << >>, ingredients |-> <<Strip(L_Mix)>>]>>
    /\ yielded[1].instructions = << >>

\* C21: under SpecRecord, a record that has a field line and no whitespace-only
\* line after its first field line is consumed whole by the header reader: the
\* Recipe has no ingredient group and empty instructions, and every field line
\* of the record, wherever it stands, has set its field: the Recipe is the one
\* the field lines alone give.
C21_HeaderAbsorbsRecord ==
    pc = "done" =>
        LET rec == RecordOf(f)
        IN  ((\E i \in 1..Len(rec) : Recognized(rec[i])) /\ Terminators(rec) = {}) =>
              /\ Len(yielded) = 1
              /\ yielded[1].ingredients_groups = << >>
              /\ yielded[1].instructions = << >>
              /\ yielded[1] = _parse_header(Recipe, SelectSeq(rec, Recognized)).recipe
              /\ (\E i \in 1..Len(rec) : rec[i] = L_Title) => yielded[1].title = <<"A">>
              /\ (\E i \in 1..Len(rec) : rec[i] = L_Servings) => yielded[1].servings = <<"4">>

\* A record of a title, an ingredient line, a servings line and a text line,
\* with no blank line, was parsed.
C21_Witness ==
    /\ pc = "done"
    /\ RecordOf(f) = <<L_Title, L_Eggs, L_Servings, L_Mix>>
    /\ Len(yielded) = 1
    /\ yielded[1].title = <<"A">> /\ yielded[1].servings = <<"4">>
    /\ yielded[1].ingredients_groups = << >>

\* The line with its label in canonical spelling.
Canonical(line) ==
    IF \E c \in CanonicalLines : line = LabelUpper(c)
    THEN CHOOSE c \in CanonicalLines : line = LabelUpper(c) ELSE line

\* C14 (as claimed): a header line whose label differs from the canonical label
\* only in letter case sets the same field to the same value: the Recipe of a
\* record is the Recipe of the record with every label in canonical spelling.
C14_LabelsCaseInsensitive ==
    pc = "done" =>
        yielded = <<_parse_recipe([i \in 1..Len(RecordOf(f)) |-> Canonical(RecordOf(f)[i])])>>
====
